---- MODULE Spec2Model ----
(***************************************************************************)
(* A model of the Google search operator tool: the query-URL builder       *)
(* (src/utils.py build_search_url), the JSON persistence of history and    *)
(* favorites (src/utils.py, the load and save functions), and the handlers *)
(* of the Streamlit script (src/app.py) that read and write the lists.     *)
(*                                                                         *)
(* Strings are TLA+ strings; Len, SubSeq and \o act on them character by   *)
(* character.                                                              *)
(***************************************************************************)
EXTENDS Integers, Sequences, FiniteSets, TLC

VARIABLES
    histFile,        \* search_history.json on disk
    favFile,         \* favorites.json on disk
    started,         \* session -> the script has initialised st.session_state
    search_history,  \* session -> st.session_state.search_history
    favorites,       \* session -> st.session_state.favorites
    batch_queries,   \* session -> st.session_state.batch_queries
    raised,          \* session -> the last script run ended in an uncaught exception
    acked,           \* session -> entries it appended and wrote to disk since the last clear
    last,            \* the handler that ran last, with its outcomes
    runs,            \* script runs so far
    faults,          \* writes that have failed so far
    call             \* a call of a pure function of utils.py and its result

vars == <<histFile, favFile, started, search_history, favorites, batch_queries,
          raised, acked, last, runs, faults, call>>

(***************************************************************************)
(* Strings                                                                 *)
(***************************************************************************)
Char(s, i) == SubSeq(s, i, i)

Range(seq) == {seq[i] : i \in 1..Len(seq)}

Min(a, b) == IF a < b THEN a ELSE b

\* str.strip(), str.split(): the whitespace characters of the model's alphabet
IsSpace(c) == c \in {" ", "\t", "\n"}

RECURSIVE LStrip(_)
LStrip(s) == IF Len(s) > 0 /\ IsSpace(Char(s, 1)) THEN LStrip(SubSeq(s, 2, Len(s))) ELSE s

RECURSIVE RStrip(_)
RStrip(s) ==
    IF Len(s) > 0 /\ IsSpace(Char(s, Len(s))) THEN RStrip(SubSeq(s, 1, Len(s) - 1)) ELSE s

\* str.strip()
Strip(s) == RStrip(LStrip(s))

\* str.startswith / str.endswith
StartsWith(s, p) == Len(p) <= Len(s) /\ SubSeq(s, 1, Len(p)) = p
EndsWith(s, p) == Len(p) <= Len(s) /\ SubSeq(s, Len(s) - Len(p) + 1, Len(s)) = p

\* sub in s
Contains(s, sub) ==
    \E i \in 1..(Len(s) - Len(sub) + 1) : SubSeq(s, i, i + Len(sub) - 1) = sub

LowerLetters == "abcdefghijklmnopqrstuvwxyz"
UpperLetters == "ABCDEFGHIJKLMNOPQRSTUVWXYZ"

CharsOf(s) == {Char(s, i) : i \in 1..Len(s)}

LowerChars == CharsOf(LowerLetters)

UpperChar(c) ==
    IF c \in LowerChars
    THEN Char(UpperLetters, CHOOSE i \in 1..Len(LowerLetters) : Char(LowerLetters, i) = c)
    ELSE c

\* str.upper()
RECURSIVE Upper(_)
Upper(s) == IF s = "" THEN "" ELSE UpperChar(Char(s, 1)) \o Upper(SubSeq(s, 2, Len(s)))

\* str.split() with no argument: the maximal runs of non-whitespace characters
RECURSIVE SplitFrom(_, _, _, _)
SplitFrom(s, i, cur, acc) ==
    IF i > Len(s)
    THEN IF cur = "" THEN acc ELSE Append(acc, cur)
    ELSE IF IsSpace(Char(s, i))
         THEN SplitFrom(s, i + 1, "", IF cur = "" THEN acc ELSE Append(acc, cur))
         ELSE SplitFrom(s, i + 1, cur \o Char(s, i), acc)

Split(s) == SplitFrom(s, 1, "", <<>>)

\* the pieces of s[lo..hi] between the one-character separators, by halves
RECURSIVE SplitRange(_, _, _, _)
SplitRange(s, sep, lo, hi) ==
    IF lo > hi THEN <<"">>
    ELSE IF lo = hi THEN (IF Char(s, lo) = sep THEN <<"", "">> ELSE <<Char(s, lo)>>)
    ELSE LET mid == (lo + hi) \div 2
             left == SplitRange(s, sep, lo, mid)
             right == SplitRange(s, sep, mid + 1, hi)
         IN SubSeq(left, 1, Len(left) - 1)
            \o <<left[Len(left)] \o right[1]>>
            \o Tail(right)

\* s.split(sep) for a one-character sep: the pieces between the separators
SplitOn(s, sep) == SplitRange(s, sep, 1, Len(s))

\* sep.join(parts)
RECURSIVE Join(_, _)
Join(parts, sep) ==
    IF Len(parts) = 0 THEN ""
    ELSE IF Len(parts) = 1 THEN parts[1]
    ELSE parts[1] \o sep \o Join(Tail(parts), sep)

(***************************************************************************)
(* urllib.parse.quote_plus: letters, digits and _ . - ~ are kept, a space  *)
(* becomes +, every other character becomes % and its two hex digits.      *)
(***************************************************************************)
Digits == "0123456789"
AlwaysSafe == CharsOf(LowerLetters \o UpperLetters \o Digits \o "_.-~")

IsSafeChar(c) == c \in AlwaysSafe

PercentCode(c) ==
    CASE c = "\"" -> "%22"
      [] c = ":"  -> "%3A"
      [] c = "("  -> "%28"
      [] c = ")"  -> "%29"
      [] c = "/"  -> "%2F"
      [] c = "+"  -> "%2B"
      [] c = "&"  -> "%26"
      [] c = "#"  -> "%23"
      [] c = "*"  -> "%2A"
      [] c = "="  -> "%3D"
      [] c = "%"  -> "%25"
      [] c = "'"  -> "%27"
      [] c = "<"  -> "%3C"
      [] c = ">"  -> "%3E"
      [] c = "\t" -> "%09"
      [] c = "\n" -> "%0A"

\* a bug: quote_plus(query, safe='&')
QuoteChar_amp(c) ==
    IF c = " " THEN "+" ELSE IF IsSafeChar(c) \/ c = "&" THEN c ELSE PercentCode(c)

QuoteChar(c) ==
    IF c = " " THEN "+" ELSE IF IsSafeChar(c) THEN c ELSE PercentCode(c)

RECURSIVE quote_plus(_)
quote_plus(s) == IF s = "" THEN "" ELSE QuoteChar(Char(s, 1)) \o quote_plus(SubSeq(s, 2, Len(s)))

(***************************************************************************)
(* What the users of the model do: the sessions, the clock readings, and   *)
(* what they select and type.                                              *)
(***************************************************************************)
Sessions == {"s1", "s2"}

\* values of datetime.datetime.now().isoformat(): the wall clock may repeat a
\* value, and a run reads it once
Timestamps == {"T1", "T2"}

\* values of date_input.strftime("%Y-%m-%d")
Dates == {"2021-06-01"}

\* what the user has selected and typed in Quick Search
QuickInputs ==
    {[category |-> "Page Elements", operator |-> "intitle:", text |-> "a b"],
     [category |-> "Site & Domain", operator |-> "site:", text |-> "a b"],
     [category |-> "Time-based", operator |-> "before:", text |-> ""]}

\* what the user has selected and typed in Batch Search
BatchInputs ==
    {[operator |-> "site:", text |-> " a b \n\nc.com"],
     [operator |-> "OR", text |-> ""]}

\* [line.strip() for line in batch_input.split('\n') if line.strip()]
NonEmptyLine(line) == line # ""

BatchLines(text) ==
    LET raw == SplitOn(text, "\n")
    IN SelectSeq([i \in 1..Len(raw) |-> Strip(raw[i])], NonEmptyLine)

(***************************************************************************)
(* build_search_url(operator, search_term, additional_params)              *)
(***************************************************************************)
\* additional_params: None, {} or {'date': d}
NoParams == [kind |-> "None", date |-> ""]
EmptyParams == [kind |-> "dict", date |-> ""]
DateParams(d) == [kind |-> "date", date |-> d]

\* additional_params and 'date' in additional_params
HasDate(p) == p.kind = "date"

UrlOperators == {"site:", "related:", "cache:", "link:", "info:"}

\* a bug: a term already in quotes is quoted again
NeedsQuotes_always(term) == Contains(term, " ")

NeedsQuotes(term) == Contains(term, " ") /\ ~(StartsWith(term, "\"") /\ EndsWith(term, "\""))

\* a bug: the URL operators take the quoting of the keyword operators
ColonQuery_quoting(operator, term) ==
    IF NeedsQuotes(term) THEN operator \o "\"" \o term \o "\"" ELSE operator \o term

\* the branch for an operator that ends with ':' (utils.py 159-169)
ColonQuery(operator, term) ==
    IF operator \in UrlOperators
    THEN operator \o term
    ELSE IF NeedsQuotes(term)
         THEN operator \o "\"" \o term \o "\""
         ELSE operator \o term

\* a bug: the date the user chose is ignored
DatedQuery_default(operator, term, additional_params) == operator \o "2020-01-01 " \o term

\* the branch for before: and after: (utils.py 136-140)
DatedQuery(operator, term, additional_params) ==
    IF HasDate(additional_params)
    THEN operator \o additional_params.date \o " " \o term
    ELSE operator \o "2020-01-01 " \o term

\* a bug: the window ends where the default window ends
DateRangeQuery_end(term, additional_params) ==
    IF HasDate(additional_params)
    THEN LET year == SubSeq(additional_params.date, 1, Min(4, Len(additional_params.date)))
         IN "after:" \o year \o "-01-01 before:2021-12-31 " \o term
    ELSE "after:2020-01-01 before:2021-12-31 " \o term

\* the branch for daterange: (utils.py 141-147)
DateRangeQuery(term, additional_params) ==
    IF HasDate(additional_params)
    THEN LET year == SubSeq(additional_params.date, 1, Min(4, Len(additional_params.date)))
         IN "after:" \o year \o "-01-01 before:" \o year \o "-12-31 " \o term
    ELSE "after:2020-01-01 before:2021-12-31 " \o term

\* a bug: the words are not joined again, the rest of the term is its second word
AroundQuery_second(term) ==
    IF ~Contains(Upper(term), "AROUND(")
    THEN LET parts == Split(term)
         IN IF Len(parts) >= 2
            THEN parts[1] \o " AROUND(5) " \o parts[2]
            ELSE term \o " AROUND(5) related"
    ELSE term

\* the branch for around(X): (utils.py 148-158)
AroundQuery(term) ==
    IF ~Contains(Upper(term), "AROUND(")
    THEN LET parts == Split(term)
         IN IF Len(parts) >= 2
            THEN parts[1] \o " AROUND(5) " \o Join(Tail(parts), " ")
            ELSE term \o " AROUND(5) related"
    ELSE term

\* a bug: the operator and the term are not set apart
FallbackQuery_joined(operator, term) == operator \o term

\* the branch for an operator without a trailing ':' (utils.py 170-172)
FallbackQuery(operator, term) == operator \o " " \o term

\* the query string build_search_url encodes (utils.py 133-172)
BuildQuery(operator, search_term, additional_params) ==
    LET term == Strip(search_term)
    IN IF operator \in {"before:", "after:"}
       THEN DatedQuery(operator, term, additional_params)
       ELSE IF operator = "daterange:"
       THEN DateRangeQuery(term, additional_params)
       ELSE IF operator = "around(X):"
       THEN AroundQuery(term)
       ELSE IF EndsWith(operator, ":")
       THEN ColonQuery(operator, term)
       ELSE FallbackQuery(operator, term)

UrlPrefix == "https://www.google.com/search?q="
UrlSuffix == "&num=100"

BuildUrl(operator, search_term, additional_params) ==
    UrlPrefix \o quote_plus(BuildQuery(operator, search_term, additional_params)) \o UrlSuffix

\* the calls of build_search_url the script makes for the inputs above,
\* evaluated once
ScriptCalls ==
    {<<inp.operator, inp.text, IF inp.operator \in {"before:", "after:", "daterange:"}
                               THEN DateParams(d) ELSE EmptyParams>> :
        inp \in QuickInputs, d \in Dates}
    \cup UNION {{<<inp.operator, line, NoParams>> : line \in Range(BatchLines(inp.text))} :
                  inp \in BatchInputs}

UrlMemo == [c \in ScriptCalls |-> BuildUrl(c[1], c[2], c[3])]

build_search_url(operator, search_term, additional_params) ==
    IF <<operator, search_term, additional_params>> \in ScriptCalls
    THEN UrlMemo[<<operator, search_term, additional_params>>]
    ELSE BuildUrl(operator, search_term, additional_params)

(***************************************************************************)
(* The operator catalog (src/search_operators.py)                          *)
(***************************************************************************)
\* the keys of SEARCH_OPERATORS whose "type" is "url"
UrlTypeTokens == {"site:", "related:", "cache:", "link:", "info:", "blogurl:"}

\* the keys of SEARCH_OPERATORS whose "type" is "keyword"
KeywordTypeTokens ==
    {"filetype:", "intitle:", "allintitle:", "inurl:", "allinurl:", "intext:",
     "allintext:", "define:", "stocks:", "weather:", "map:", "movie:", "source:",
     "before:", "after:", "daterange:", "phonebook:", "bphonebook:", "author:",
     "group:", "inanchor:", "allinanchor:", "around(X):", "loc:", "location:",
     "AROUND(X):", "\"\"", "*", "OR", "-", "+", "~", "..", "imagesize:",
     "safesearch:", "haschange:", "inposttitle:", "inpostauthor:", "id:"}

\* the keys of SEARCH_OPERATORS
CatalogTokens == UrlTypeTokens \cup KeywordTypeTokens

\* get_operator_info(operator_name)['type']: "keyword" for a token not in the catalog
OperatorType(token) == IF token \in UrlTypeTokens THEN "url" ELSE "keyword"

\* get_operator_categories(): label -> tokens. The labels are written here
\* without their leading pictograph.
CategoryLabels ==
    {"Site & Domain", "Content & Files", "Page Elements", "Time-based",
     "News & Sources", "SEO Advanced", "Special Searches", "People & Contact",
     "Location"}

CategoryTokens(label) ==
    CASE label = "Site & Domain"    -> {"site:", "related:", "info:", "cache:", "link:", "blogurl:"}
      [] label = "Content & Files"  -> {"filetype:", "define:", "imagesize:", "haschange:"}
      [] label = "Page Elements"    -> {"intitle:", "allintitle:", "inurl:", "allinurl:", "intext:",
                                        "allintext:", "inposttitle:", "inpostauthor:"}
      [] label = "Time-based"       -> {"before:", "after:", "daterange:"}
      [] label = "News & Sources"   -> {"source:", "location:"}
      [] label = "SEO Advanced"     -> {"AROUND(X):", "\"\"", "*", "OR", "-", "+", "~", "..",
                                        "inanchor:", "allinanchor:"}
      [] label = "Special Searches" -> {"stocks:", "weather:", "map:", "movie:", "safesearch:", "id:"}
      [] label = "People & Contact" -> {"phonebook:", "bphonebook:", "author:", "group:"}
      [] label = "Location"         -> {"loc:", "location:"}

\* one value of SEARCH_OPERATORS
OperatorSpec(description, type, placeholder, examples) ==
    [description |-> description, type |-> type, placeholder |-> placeholder,
     examples |-> examples]

\* SEARCH_OPERATORS (search_operators.py 6-284): token -> spec.  The key
\* "allintitle:" is written twice there: the dict holds the second value.
SEARCH_OPERATORS ==
    ("site:" :> OperatorSpec("Search within a specific website or domain", "url",
        "example.com",
        <<"site:reddit.com python tutorials", "site:github.com machine learning">>)) @@
    ("filetype:" :> OperatorSpec("Search for specific file types", "keyword",
        "pdf machine learning",
        <<"filetype:pdf machine learning", "filetype:ppt presentation tips">>)) @@
    ("intitle:" :> OperatorSpec("Search for pages with specific words in the title", "keyword",
        "python tutorial",
        <<"intitle:python tutorial", "intitle:\"data science\"">>)) @@
    ("allintitle:" :> OperatorSpec("All specified words must appear in title", "keyword",
        "allintitle:SEO guide 2024",
        <<"allintitle:digital marketing strategy", "allintitle:web development tutorial">>)) @@
    ("inurl:" :> OperatorSpec("Search for pages with specific words in the URL", "keyword",
        "tutorial",
        <<"inurl:tutorial python", "inurl:blog machine learning">>)) @@
    ("allinurl:" :> OperatorSpec("Search for pages with all specified words in the URL", "keyword",
        "python tutorial",
        <<"allinurl:python tutorial", "allinurl:web development">>)) @@
    ("intext:" :> OperatorSpec("Search for pages with specific words in the body text", "keyword",
        "machine learning",
        <<"intext:machine learning", "intext:\"data science\"">>)) @@
    ("allintext:" :> OperatorSpec("Search for pages with all specified words in the body text", "keyword",
        "python programming tutorial",
        <<"allintext:python programming", "allintext:web development guide">>)) @@
    ("related:" :> OperatorSpec("Find websites related to a specific URL", "url",
        "example.com",
        <<"related:stackoverflow.com", "related:github.com">>)) @@
    ("cache:" :> OperatorSpec("View Google's cached version of a webpage", "url",
        "example.com",
        <<"cache:example.com", "cache:stackoverflow.com/questions/123">>)) @@
    ("link:" :> OperatorSpec("Find pages that link to a specific URL", "url",
        "example.com",
        <<"link:stackoverflow.com", "link:github.com">>)) @@
    ("define:" :> OperatorSpec("Get definitions for words or phrases", "keyword",
        "artificial intelligence",
        <<"define:machine learning", "define:cryptocurrency">>)) @@
    ("stocks:" :> OperatorSpec("Get stock information for a company", "keyword",
        "AAPL",
        <<"stocks:AAPL", "stocks:GOOGL">>)) @@
    ("weather:" :> OperatorSpec("Get weather information for a location", "keyword",
        "New York",
        <<"weather:New York", "weather:London">>)) @@
    ("map:" :> OperatorSpec("Show map results for a location", "keyword",
        "restaurants New York",
        <<"map:restaurants New York", "map:hotels Paris">>)) @@
    ("movie:" :> OperatorSpec("Search for movie information and showtimes", "keyword",
        "Inception",
        <<"movie:Inception", "movie:Avengers">>)) @@
    ("source:" :> OperatorSpec("Search Google News for articles from a specific source", "keyword",
        "CNN",
        <<"source:CNN climate change", "source:BBC technology">>)) @@
    ("before:" :> OperatorSpec("Search for content published before a specific date", "keyword",
        "2020 machine learning",
        <<"before:2020-01-01 machine learning", "before:2019 cryptocurrency">>)) @@
    ("after:" :> OperatorSpec("Search for content published after a specific date", "keyword",
        "2020 AI trends",
        <<"after:2020-01-01 AI trends", "after:2021 web development">>)) @@
    ("daterange:" :> OperatorSpec("Search for content within a specific date range", "keyword",
        "machine learning trends",
        <<"daterange:2020-2021 machine learning", "daterange:2019-2020 startup">>)) @@
    ("info:" :> OperatorSpec("Get information about a specific URL", "url",
        "example.com",
        <<"info:stackoverflow.com", "info:github.com">>)) @@
    ("phonebook:" :> OperatorSpec("Search for phone numbers (limited availability)", "keyword",
        "John Smith New York",
        <<"phonebook:John Smith", "phonebook:business name city">>)) @@
    ("bphonebook:" :> OperatorSpec("Search for business phone numbers", "keyword",
        "pizza New York",
        <<"bphonebook:pizza New York", "bphonebook:dentist Chicago">>)) @@
    ("author:" :> OperatorSpec("Search for articles by a specific author in Google Scholar", "keyword",
        "John Smith",
        <<"author:\"John Smith\" machine learning", "author:Einstein physics">>)) @@
    ("group:" :> OperatorSpec("Search within Google Groups", "keyword",
        "python programming",
        <<"group:comp.lang.python", "group:alt.comp.programming">>)) @@
    ("inanchor:" :> OperatorSpec("Search for pages with specific anchor text in links", "keyword",
        "click here",
        <<"inanchor:\"click here\"", "inanchor:download">>)) @@
    ("allinanchor:" :> OperatorSpec("Search for pages with all specified words in anchor text", "keyword",
        "download free software",
        <<"allinanchor:download free", "allinanchor:learn python">>)) @@
    ("around(X):" :> OperatorSpec("Search for pages where two terms appear within X words of each other", "keyword",
        "python AROUND(5) tutorial",
        <<"python AROUND(10) machine learning", "climate AROUND(3) change">>)) @@
    ("loc:" :> OperatorSpec("Search for results from a specific location", "keyword",
        "restaurants loc:\"New York\"",
        <<"restaurants loc:\"New York\"", "events loc:\"San Francisco\"">>)) @@
    ("location:" :> OperatorSpec("Search for news from a specific location", "keyword",
        "news location:\"California\"",
        <<"news location:\"California\"", "weather location:\"London\"">>)) @@
    ("AROUND(X):" :> OperatorSpec("Find pages where two terms appear within X words of each other", "keyword",
        "SEO AROUND(5) optimization",
        <<"digital AROUND(3) marketing", "content AROUND(10) strategy">>)) @@
    ("\"\"" :> OperatorSpec("Exact phrase search - find pages with the exact phrase", "keyword",
        "\"digital marketing strategy\"",
        <<"\"content marketing\"", "\"SEO best practices\"">>)) @@
    ("*" :> OperatorSpec("Wildcard operator - placeholder for unknown words", "keyword",
        "best * for SEO",
        <<"best * for marketing", "how to * website traffic">>)) @@
    ("OR" :> OperatorSpec("Search for pages containing either term", "keyword",
        "SEO OR SEM",
        <<"marketing OR advertising", "python OR javascript">>)) @@
    ("-" :> OperatorSpec("Exclude terms from search results", "keyword",
        "digital marketing -ads",
        <<"python tutorials -paid", "SEO guide -2019">>)) @@
    ("+" :> OperatorSpec("Include specific terms in search results", "keyword",
        "+SEO +optimization",
        <<"+digital +marketing tips", "+content +strategy">>)) @@
    ("~" :> OperatorSpec("Search for synonyms and related terms", "keyword",
        "~car information",
        <<"~digital marketing", "~website optimization">>)) @@
    (".." :> OperatorSpec("Search within number ranges", "keyword",
        "smartphones $200..$500",
        <<"laptops $500..$1000", "camera 2020..2023">>)) @@
    ("imagesize:" :> OperatorSpec("Find images of specific dimensions", "keyword",
        "imagesize:1920x1080",
        <<"imagesize:800x600 wallpaper", "imagesize:1024x768 screenshot">>)) @@
    ("safesearch:" :> OperatorSpec("Control safe search filtering", "keyword",
        "safesearch:off",
        <<"safesearch:on family content", "safesearch:off research">>)) @@
    ("blogurl:" :> OperatorSpec("Search within blog URLs", "url",
        "blogurl:medium.com",
        <<"blogurl:wordpress.com SEO", "blogurl:blogger.com marketing">>)) @@
    ("haschange:" :> OperatorSpec("Find pages that have changed recently", "keyword",
        "haschange:speed",
        <<"haschange:update website", "haschange:new product launch">>)) @@
    ("inposttitle:" :> OperatorSpec("Search within blog post titles", "keyword",
        "inposttitle:SEO tips",
        <<"inposttitle:marketing strategy", "inposttitle:web development">>)) @@
    ("inpostauthor:" :> OperatorSpec("Search by blog post author", "keyword",
        "inpostauthor:\"John Smith\"",
        <<"inpostauthor:\"Neil Patel\"", "inpostauthor:\"Rand Fishkin\"">>)) @@
    ("id:" :> OperatorSpec("Search for specific page or post ID", "keyword",
        "id:12345",
        <<"id:wordpress-123", "id:blog-post-456">>))

\* the default of SEARCH_OPERATORS.get
UnknownOperator == OperatorSpec("Unknown operator", "keyword", "search term", <<>>)

\* a bug: SEARCH_OPERATORS.setdefault(operator_name, {...})
CatalogAfterLookup_setdefault(catalog, operator_name) ==
    IF operator_name \in DOMAIN catalog
    THEN catalog
    ELSE (operator_name :> UnknownOperator) @@ catalog

\* the dict after SEARCH_OPERATORS.get(operator_name, {...}): get writes nothing
CatalogAfterLookup(catalog, operator_name) == catalog

\* a bug: the token is looked up in upper case
get_operator_info_upper(operator_name) ==
    IF Upper(operator_name) \in DOMAIN SEARCH_OPERATORS
    THEN SEARCH_OPERATORS[Upper(operator_name)]
    ELSE UnknownOperator

\* get_operator_info (search_operators.py 286-301)
get_operator_info(operator_name) ==
    IF operator_name \in DOMAIN SEARCH_OPERATORS
    THEN SEARCH_OPERATORS[operator_name]
    ELSE UnknownOperator

(***************************************************************************)
(* Validators (src/utils.py)                                               *)
(***************************************************************************)
Alnum == CharsOf(LowerLetters \o UpperLetters \o Digits)

IsAlnum(c) == c \in Alnum

\* one label of domain_pattern: [a-zA-Z0-9]([a-zA-Z0-9\-]{0,61}[a-zA-Z0-9])?
LabelOk(l) ==
    /\ Len(l) >= 1
    /\ Len(l) <= 63
    /\ IsAlnum(Char(l, 1))
    /\ IsAlnum(Char(l, Len(l)))
    /\ \A i \in 1..Len(l) : IsAlnum(Char(l, i)) \/ Char(l, i) = "-"

\* the whole of s is labels joined by dots
FullDomain(s) ==
    LET labels == SplitOn(s, ".")
    IN \A i \in 1..Len(labels) : LabelOk(labels[i])

\* re.match(domain_pattern, s): $ also matches before one newline that ends s
MatchesDomainPattern(s) ==
    \/ FullDomain(s)
    \/ EndsWith(s, "\n") /\ FullDomain(SubSeq(s, 1, Len(s) - 1))

\* url.split('://', 1)[1] for a url that starts with http:// or https://
AfterProtocol(url) ==
    IF StartsWith(url, "http://") THEN SubSeq(url, 8, Len(url))
    ELSE IF StartsWith(url, "https://") THEN SubSeq(url, 9, Len(url))
    ELSE url

MaxDomainLen == 253

validate_url(url) ==
    IF url = ""
    THEN FALSE
    ELSE LET host == SplitOn(AfterProtocol(Strip(url)), "/")[1]
         IN MatchesDomainPattern(host) /\ Len(host) <= MaxDomainLen

MaxKeywordLen == 500

validate_keyword(keyword) ==
    IF keyword = ""
    THEN FALSE
    ELSE Len(Strip(keyword)) > 0 /\ Len(Strip(keyword)) <= MaxKeywordLen

(***************************************************************************)
(* Batch validation (src/utils.py 218-295)                                  *)
(***************************************************************************)
HarmfulChars == {"<", ">", "&", "\"", "'"}

\* search_term.replace(char, '') for every char of chars
RECURSIVE RemoveChars(_, _)
RemoveChars(s, chars) ==
    IF s = "" THEN ""
    ELSE (IF Char(s, 1) \in chars THEN "" ELSE Char(s, 1))
         \o RemoveChars(SubSeq(s, 2, Len(s)), chars)

clean_search_term(search_term) ==
    IF search_term = "" THEN ""
    ELSE Strip(RemoveChars(Join(Split(search_term), " "), HarmfulChars))

MaxBatchQueries == 50

\* a bug: the line that fills the batch is refused
TooMany_full(lines) == Len(lines) >= MaxBatchQueries

\* len(lines) > 50
TooMany(lines) == Len(lines) > MaxBatchQueries

\* a bug: no 'if cleaned' test
CleanedQueries_all(lines) == [i \in 1..Len(lines) |-> clean_search_term(lines[i])]

\* utils.py 286-290: the cleaned lines that are not empty, in their order
CleanedQueries(lines) ==
    SelectSeq([i \in 1..Len(lines) |-> clean_search_term(lines[i])], NonEmptyLine)

\* the tuple (is_valid, cleaned_queries, error_message)
BatchResult(is_valid, cleaned_queries, error_message) ==
    [ok |-> is_valid, queries |-> cleaned_queries, error |-> error_message]

validate_batch_input(batch_input) ==
    IF batch_input = "" \/ Strip(batch_input) = ""
    THEN BatchResult(FALSE, <<>>, "Batch input cannot be empty")
    ELSE LET lines == BatchLines(batch_input)
         IN IF Len(lines) = 0
            THEN BatchResult(FALSE, <<>>, "No valid queries found")
            ELSE IF TooMany(lines)
            THEN BatchResult(FALSE, <<>>, "Maximum 50 queries allowed in batch mode")
            ELSE IF Len(CleanedQueries(lines)) = 0
            THEN BatchResult(FALSE, <<>>, "No valid queries after cleaning")
            ELSE BatchResult(TRUE, CleanedQueries(lines), "")

(***************************************************************************)
(* JSON text of the two files: json.dump writes a list of objects, each    *)
(* value a string literal (or true); json.load reads them back.            *)
(***************************************************************************)
JsonEscapeChar(c) ==
    CASE c = "\"" -> "\\\""
      [] c = "\\" -> "\\\\"
      [] c = "\n" -> "\\n"
      [] c = "\t" -> "\\t"
      [] OTHER    -> c

RECURSIVE JsonEscape(_)
JsonEscape(s) ==
    IF s = "" THEN "" ELSE JsonEscapeChar(Char(s, 1)) \o JsonEscape(SubSeq(s, 2, Len(s)))

JsonUnescapeChar(c) ==
    CASE c = "n" -> "\n"
      [] c = "t" -> "\t"
      [] OTHER   -> c

RECURSIVE JsonUnescape(_)
JsonUnescape(s) ==
    IF s = "" THEN ""
    ELSE IF Char(s, 1) = "\\"
         THEN JsonUnescapeChar(Char(s, 2)) \o JsonUnescape(SubSeq(s, 3, Len(s)))
         ELSE Char(s, 1) \o JsonUnescape(SubSeq(s, 2, Len(s)))

(***************************************************************************)
(* The entries of the lists (src/app.py)                                   *)
(***************************************************************************)
\* search_entry (app.py 253-259)
SearchEntry(ts, op, text, url, cat) ==
    [timestamp |-> ts, operator |-> op, query |-> text, url |-> url, category |-> cat]

\* history_entry (app.py 371-377)
HistoryEntry(ts, op, text, url) ==
    [timestamp |-> ts, operator |-> op, query |-> text, url |-> url, batch |-> TRUE]

\* query_entry (app.py 341-345)
QueryEntry(op, line, ts) == [operator |-> op, query |-> line, timestamp |-> ts]

\* entries with the characters JSON escapes
StorePool ==
    <<SearchEntry("T1", "intitle:", "a \"b\"", "u?q=intitle%3Aa", "Page Elements"),
      HistoryEntry("T2", "OR", "c\\d", "u?q=OR+c"),
      SearchEntry("T2", "site:", "x\ty", "u?q=site%3Ax", "Site & Domain")>>

EntryStrings(entry) == {entry[k] : k \in DOMAIN entry \ {"batch"}}

\* a str as a JSON string literal, and back
JsonString(v) == "\"" \o JsonEscape(v) \o "\""
PyString(text) == JsonUnescape(SubSeq(text, 2, Len(text) - 1))

\* the strings of the entries of the model and their literals, evaluated once
ScriptStrings ==
    Timestamps \cup CategoryLabels \cup CatalogTokens
    \cup {inp.text : inp \in QuickInputs}
    \cup UNION {Range(BatchLines(inp.text)) : inp \in BatchInputs}
    \cup {UrlMemo[c] : c \in ScriptCalls}
    \cup UNION {EntryStrings(StorePool[i]) : i \in 1..Len(StorePool)}

JsonStringMemo == [v \in ScriptStrings |-> JsonString(v)]
ScriptLiterals == {JsonStringMemo[v] : v \in ScriptStrings}
PyStringMemo == [t \in ScriptLiterals |-> PyString(t)]

\* the JSON text of one value of an entry: 'batch' holds True, the others strings
JsonValue(key, v) ==
    IF key = "batch" THEN "true"
    ELSE IF v \in ScriptStrings THEN JsonStringMemo[v] ELSE JsonString(v)

PyValue(key, text) ==
    IF key = "batch" THEN text = "true"
    ELSE IF text \in ScriptLiterals THEN PyStringMemo[text] ELSE PyString(text)

\* json.dump(entries, f, indent=2, ensure_ascii=False)
json_dump(entries) ==
    [i \in 1..Len(entries) |-> [k \in DOMAIN entries[i] |-> JsonValue(k, entries[i][k])]]

\* json.load(f)
json_load(items) ==
    [i \in 1..Len(items) |-> [k \in DOMAIN items[i] |-> PyValue(k, items[i][k])]]

(***************************************************************************)
(* Persistence (src/utils.py 15-72).  A file is [kind, items]:             *)
(*   missing     os.path.exists is false                                   *)
(*   json        a JSON list, items its objects                            *)
(*   partial     text that is no JSON document (json.JSONDecodeError)      *)
(*   unreadable  open or read fails with an OSError                        *)
(*   badutf8     bytes that are no UTF-8 (UnicodeDecodeError on read)      *)
(***************************************************************************)
MissingFile == [kind |-> "missing", items |-> <<>>]
PartialFile == [kind |-> "partial", items |-> <<>>]
UnreadableFile == [kind |-> "unreadable", items |-> <<>>]
BadUtf8File == [kind |-> "badutf8", items |-> <<>>]
JsonFile(entries) == [kind |-> "json", items |-> json_dump(entries)]

\* the exception reading the file raises inside the try of a load
ReadError(file) ==
    CASE file.kind = "json"       -> "none"
      [] file.kind = "missing"    -> "none"
      [] file.kind = "partial"    -> "JSONDecodeError"
      [] file.kind = "unreadable" -> "OSError"
      [] file.kind = "badutf8"    -> "UnicodeDecodeError"

\* except (json.JSONDecodeError, IOError); IOError is OSError
LoadCatches == {"JSONDecodeError", "OSError"}

\* what a load does: the list it returns, or an exception it lets through
LoadFile(file) ==
    IF ReadError(file) = "none"
    THEN [raises |-> FALSE,
          value |-> IF file.kind = "json" THEN json_load(file.items) ELSE <<>>]
    ELSE [raises |-> ReadError(file) \notin LoadCatches, value |-> <<>>]

load_search_history(file) == LoadFile(file)
load_favorites(file) == LoadFile(file)

\* a write: it succeeds; open() fails and the file is as it was; or open() has
\* truncated the file and a later write fails, leaving an incomplete text
WriteOutcomes == {"ok", "open_fails", "write_fails"}

WriteFile(file, entries, outcome) ==
    CASE outcome = "ok"          -> JsonFile(entries)
      [] outcome = "open_fails"  -> file
      [] outcome = "write_fails" -> PartialFile

\* the exception a write raises inside the try of a save
WriteError(outcome) == IF outcome = "ok" THEN "none" ELSE "OSError"

\* a bug: no except clause
SaveCatches_nothing == {}

\* except IOError
SaveCatches == {"OSError"}

\* the save lets the exception of its write through to the caller
SaveRaises(outcome) == WriteError(outcome) \notin (SaveCatches \cup {"none"})

HistoryLimit == 1000

\* a bug: history[:1000], the oldest entries kept
LastEntries_oldest(history) ==
    IF Len(history) > HistoryLimit THEN SubSeq(history, 1, HistoryLimit) ELSE history

\* history[-1000:] if len(history) > 1000 else history
LastEntries(history) ==
    IF Len(history) > HistoryLimit
    THEN SubSeq(history, Len(history) - HistoryLimit + 1, Len(history))
    ELSE history

\* a bug-free alternative the script does not implement: the entries of the
\* file that the list lacks are kept in front of the list
save_search_history_merging(file, history, outcome) ==
    WriteFile(file,
              LastEntries(SelectSeq(LoadFile(file).value,
                                    LAMBDA e : e \notin Range(history)) \o history),
              outcome)

\* a bug: the whole list written, without the cap
save_search_history_uncapped(file, history, outcome) == WriteFile(file, history, outcome)

\* the file after save_search_history(history); the IOError is caught
save_search_history(file, history, outcome) == WriteFile(file, LastEntries(history), outcome)

\* a bug: the cap of the history applied to the favorites
save_favorites_capped(file, favs, outcome) == WriteFile(file, LastEntries(favs), outcome)

\* the file after save_favorites(favorites); the IOError is caught
save_favorites(file, favs, outcome) == WriteFile(file, favs, outcome)

(***************************************************************************)
(* The script (src/app.py).  Streamlit runs it from top to bottom once per *)
(* interaction; the values its widgets return in a run are the inputs of   *)
(* that run, and every action below is one run for one choice of them.     *)
(***************************************************************************)
MaxRuns == 4       \* script runs explored, over all sessions
MaxFaults == 1     \* failing writes explored

RemoveAt(seq, idx) == SubSeq(seq, 1, idx - 1) \o SubSeq(seq, idx + 1, Len(seq))

NoCall == [fn |-> "none", args |-> <<>>, result |-> <<>>]

Ran(name, s, acted, hw, fw, fav) ==
    [op |-> name, s |-> s, acted |-> acted, hw |-> hw, fw |-> fw, fav |-> fav]

\* the writes of a run that failed
FaultsOf(ran) ==
    (IF ran.hw \in {"open_fails", "write_fails"} THEN 1 ELSE 0)
    + (IF ran.fw \in {"open_fails", "write_fails"} THEN 1 ELSE 0)

\* the outcomes a write may have, within the bound on failed writes
Outcomes(n) == IF faults + n < MaxFaults THEN WriteOutcomes ELSE {"ok"}

\* the bounds of the exploration: the runs and the failed writes so far
Tally ==
    /\ runs' = runs + 1
    /\ faults' = faults + FaultsOf(last')
    /\ faults' <= MaxFaults
    /\ UNCHANGED call

\* the entries a session has written that the file should still hold
Acked(s, entries, hw) ==
    CASE hw = "ok"          -> [acked EXCEPT ![s] = @ \cup entries]
      [] hw = "open_fails"  -> acked
      [] hw = "write_fails" -> [t \in Sessions |-> {}]

\* an entry a session of an earlier day has left in the files
OldEntry ==
    SearchEntry("T1", "site:", "a.com", build_search_url("site:", "a.com", EmptyParams),
                "Site & Domain")

\* the two files as a session may find them: <<search_history.json, favorites.json>>
InitFiles ==
    {<<MissingFile, MissingFile>>,
     <<JsonFile(<<OldEntry>>), JsonFile(<<OldEntry>>)>>,
     <<UnreadableFile, UnreadableFile>>,
     <<PartialFile, PartialFile>>,
     <<BadUtf8File, JsonFile(<<OldEntry>>)>>,
     <<JsonFile(<<OldEntry>>), BadUtf8File>>}

Init ==
    /\ \E files \in InitFiles : histFile = files[1] /\ favFile = files[2]
    /\ started = [s \in Sessions |-> "no"]
    /\ search_history = [s \in Sessions |-> <<>>]
    /\ favorites = [s \in Sessions |-> <<>>]
    /\ batch_queries = [s \in Sessions |-> <<>>]
    /\ raised = [s \in Sessions |-> FALSE]
    /\ acked = [s \in Sessions |-> {}]
    /\ last = Ran("Init", "s1", FALSE, "none", "none", "none")
    /\ runs = 0
    /\ faults = 0
    /\ call = NoCall

\* app.py 118-124: each list is loaded once, when its key is not yet in
\* st.session_state; an exception a load lets through ends the run there.
\* started: "no", "history" (search_history is set, favorites is not), "yes".
SessionStart(s) ==
    /\ started[s] # "yes"
    /\ LET h == IF started[s] = "no"
                THEN load_search_history(histFile)
                ELSE [raises |-> FALSE, value |-> search_history[s]]
           f == load_favorites(favFile)
       IN /\ search_history' = [search_history EXCEPT ![s] = h.value]
          /\ favorites' = [favorites EXCEPT ![s] = IF h.raises THEN <<>> ELSE f.value]
          /\ started' = [started EXCEPT ![s] =
                            IF h.raises THEN "no" ELSE IF f.raises THEN "history" ELSE "yes"]
          /\ raised' = [raised EXCEPT ![s] = h.raises \/ f.raises]
    /\ batch_queries' = [batch_queries EXCEPT ![s] = <<>>]
    /\ last' = Ran("SessionStart", s, TRUE, "none", "none", "none")
    /\ UNCHANGED <<histFile, favFile, acked>>

\* the session ends: its st.session_state is dropped
SessionEnd(s) ==
    /\ started[s] = "yes"
    /\ started' = [started EXCEPT ![s] = "no"]
    /\ search_history' = [search_history EXCEPT ![s] = <<>>]
    /\ favorites' = [favorites EXCEPT ![s] = <<>>]
    /\ batch_queries' = [batch_queries EXCEPT ![s] = <<>>]
    /\ raised' = [raised EXCEPT ![s] = FALSE]
    /\ last' = Ran("SessionEnd", s, TRUE, "none", "none", "none")
    /\ UNCHANGED <<histFile, favFile, acked>>

\* app.py 244-248: the validator of the operator's type
InputValid(op, text) ==
    IF OperatorType(op) = "url" THEN validate_url(text) ELSE validate_keyword(text)

\* a bug: insert(0, search_entry)
AppendHistory_front(history, entry) == <<entry>> \o history

\* st.session_state.search_history.append(search_entry) (app.py 260)
AppendHistory(history, entry) == Append(history, entry)

\* a bug: no membership test
AddFavorite_always(favs, entry) == Append(favs, entry)

\* app.py 278-280: the favorites after Add to Favorites
AddFavorite(favs, entry) == IF entry \in Range(favs) THEN favs ELSE Append(favs, entry)

\* app.py 243: st.button was pressed, search_input is not empty, and
\* (app.py 244-248) the input passes the validator of the operator's type
Accepted(inp) == inp.text # "" /\ InputValid(inp.operator, inp.text)

\* app.py 234-237
ParamsFor(op, date) ==
    IF op \in {"before:", "after:", "daterange:"} THEN DateParams(date) ELSE EmptyParams

\* app.py 243-283: a run with the Search button pressed; add_fav is the value
\* of the Add to Favorites button in that run
QuickSearchRun(name, s, inp, date, ts, add_fav, hw, fw) ==
    LET entry == SearchEntry(ts, inp.operator, inp.text,
                             build_search_url(inp.operator, inp.text,
                                              ParamsFor(inp.operator, date)),
                             inp.category)
        \* an exception out of save_search_history ends the run before the button
        favs == IF add_fav /\ ~SaveRaises(hw)
                THEN AddFavorite(favorites[s], entry) ELSE favorites[s]
        \* save_favorites is called in the branch that appends
        saves_fav == favs # favorites[s]
    IN /\ started[s] = "yes"
       /\ Accepted(inp)
       /\ search_history' = [search_history EXCEPT ![s] = AppendHistory(@, entry)]
       /\ histFile' = save_search_history(histFile, search_history'[s], hw)
       /\ acked' = Acked(s, {entry}, hw)
       /\ favorites' = [favorites EXCEPT ![s] = favs]
       /\ favFile' = IF saves_fav THEN save_favorites(favFile, favs, fw) ELSE favFile
       /\ last' = Ran(name, s, TRUE, hw, IF saves_fav THEN fw ELSE "none",
                      IF ~add_fav THEN "none" ELSE IF saves_fav THEN "added" ELSE "duplicate")
       /\ raised' = [raised EXCEPT ![s] = SaveRaises(hw) \/ (saves_fav /\ SaveRaises(fw))]
       /\ UNCHANGED <<started, batch_queries>>

QuickSearch(s) ==
    \E inp \in QuickInputs, date \in Dates, ts \in Timestamps, hw \in Outcomes(0) :
        QuickSearchRun("QuickSearch", s, inp, date, ts, FALSE, hw, "none")

QuickSearchAddToFavorites(s) ==
    \E inp \in QuickInputs, date \in Dates, ts \in Timestamps, hw \in Outcomes(0) :
        \E fw \in Outcomes(IF hw = "ok" THEN 0 ELSE 1) :
            QuickSearchRun("AddToFavorites", s, inp, date, ts, TRUE, hw, fw)

\* app.py 243-247: the Search button pressed with no input, or with an input
\* its validator rejects: nothing is built and nothing is recorded
QuickSearchRejected(s) ==
    \E inp \in QuickInputs :
        /\ started[s] = "yes"
        /\ ~Accepted(inp)
        /\ last' = Ran("QuickSearchRejected", s, FALSE, "none", "none", "none")
        /\ raised' = [raised EXCEPT ![s] = FALSE]
        /\ UNCHANGED <<histFile, favFile, started, search_history, favorites,
                       batch_queries, acked>>

BatchLimit == 50

\* app.py 334-348: Add to Queue
AddToQueue(s) ==
    \E inp \in BatchInputs :
        LET lines == BatchLines(inp.text)
            acts == inp.text # "" /\ Len(lines) <= BatchLimit
        IN /\ started[s] = "yes"
           /\ \E ts \in Timestamps :
                 batch_queries' =
                     [batch_queries EXCEPT ![s] =
                         IF acts
                         THEN @ \o [i \in 1..Len(lines) |->
                                       QueryEntry(inp.operator, lines[i], ts)]
                         ELSE @]
           /\ last' = Ran("AddToQueue", s, acts, "none", "none", "none")
           /\ raised' = [raised EXCEPT ![s] = FALSE]
           /\ UNCHANGED <<histFile, favFile, started, search_history, favorites, acked>>

\* app.py 350-353: Clear All
ClearQueue(s) ==
    /\ started[s] = "yes"
    /\ batch_queries' = [batch_queries EXCEPT ![s] = <<>>]
    /\ last' = Ran("ClearQueue", s, TRUE, "none", "none", "none")
    /\ raised' = [raised EXCEPT ![s] = FALSE]
    /\ UNCHANGED <<histFile, favFile, started, search_history, favorites, acked>>

\* a bug: the queue taken from its end
BatchEntries_reversed(queue, ts) ==
    [i \in 1..Len(queue) |->
        HistoryEntry(ts, queue[Len(queue) + 1 - i].operator, queue[Len(queue) + 1 - i].query,
                     build_search_url(queue[Len(queue) + 1 - i].operator,
                                      queue[Len(queue) + 1 - i].query, NoParams))]

\* the entries Execute All appends for the queue (app.py 367-378)
BatchEntries(queue, ts) ==
    [i \in 1..Len(queue) |->
        HistoryEntry(ts, queue[i].operator, queue[i].query,
                     build_search_url(queue[i].operator, queue[i].query, NoParams))]

\* app.py 356-389: Execute All Searches
ExecuteAll(s) ==
    \E hw \in Outcomes(0), ts \in Timestamps :
        /\ started[s] = "yes"
        /\ Len(batch_queries[s]) > 0
        /\ search_history' =
               [search_history EXCEPT ![s] = @ \o BatchEntries(batch_queries[s], ts)]
        /\ histFile' = save_search_history(histFile, search_history'[s], hw)
        /\ acked' = Acked(s, Range(BatchEntries(batch_queries[s], ts)), hw)
        /\ last' = Ran("ExecuteAll", s, TRUE, hw, "none", "none")
        /\ raised' = [raised EXCEPT ![s] = SaveRaises(hw)]
        /\ UNCHANGED <<favFile, started, favorites, batch_queries>>

\* random.shuffle(st.session_state.batch_queries) (app.py 405-408)
ShuffleQueue(s) ==
    /\ started[s] = "yes"
    /\ Len(batch_queries[s]) > 0
    /\ \E p \in [1..Len(batch_queries[s]) -> 1..Len(batch_queries[s])] :
          /\ \A i, j \in DOMAIN p : p[i] = p[j] => i = j
          /\ batch_queries' =
                 [batch_queries EXCEPT ![s] = [i \in DOMAIN p |-> batch_queries[s][p[i]]]]
    /\ last' = Ran("ShuffleQueue", s, TRUE, "none", "none", "none")
    /\ raised' = [raised EXCEPT ![s] = FALSE]
    /\ UNCHANGED <<histFile, favFile, started, search_history, favorites, acked>>

\* app.py 542-547: Clear History and its confirmation
ClearHistory(s) ==
    \E hw \in Outcomes(0) :
        /\ started[s] = "yes"
        /\ Len(search_history[s]) > 0
        /\ search_history' = [search_history EXCEPT ![s] = <<>>]
        /\ histFile' = save_search_history(histFile, search_history'[s], hw)
        /\ acked' = IF hw = "open_fails" THEN acked ELSE [t \in Sessions |-> {}]
        /\ last' = Ran("ClearHistory", s, TRUE, hw, "none", "none")
        /\ raised' = [raised EXCEPT ![s] = SaveRaises(hw)]
        /\ UNCHANGED <<favFile, started, favorites, batch_queries>>

\* a bug: the entries of the history equal to the removed favorite go with it
RemoveFavorite_cascading(s) ==
    \E idx \in 1..Len(favorites[s]), fw \in Outcomes(0) :
        /\ started[s] = "yes"
        /\ favorites' = [favorites EXCEPT ![s] = RemoveAt(@, idx)]
        /\ favFile' = save_favorites(favFile, favorites'[s], fw)
        /\ search_history' =
               [search_history EXCEPT ![s] =
                   SelectSeq(@, LAMBDA e : e # favorites[s][idx])]
        /\ last' = Ran("RemoveFavorite", s, TRUE, "none", fw, "none")
        /\ raised' = [raised EXCEPT ![s] = SaveRaises(fw)]
        /\ UNCHANGED <<histFile, started, batch_queries, acked>>

\* app.py 609-613: Remove, on the favorite at position idx
RemoveFavorite(s) ==
    \E idx \in 1..Len(favorites[s]), fw \in Outcomes(0) :
        /\ started[s] = "yes"
        /\ favorites' = [favorites EXCEPT ![s] = RemoveAt(@, idx)]
        /\ favFile' = save_favorites(favFile, favorites'[s], fw)
        /\ last' = Ran("RemoveFavorite", s, TRUE, "none", fw, "none")
        /\ raised' = [raised EXCEPT ![s] = SaveRaises(fw)]
        /\ UNCHANGED <<histFile, started, search_history, batch_queries, acked>>

\* app.py 642-647: Clear All Favorites and its confirmation
ClearAllFavorites(s) ==
    \E fw \in Outcomes(0) :
        /\ started[s] = "yes"
        /\ Len(favorites[s]) > 0
        /\ favorites' = [favorites EXCEPT ![s] = <<>>]
        /\ favFile' = save_favorites(favFile, favorites'[s], fw)
        /\ last' = Ran("ClearAllFavorites", s, TRUE, "none", fw, "none")
        /\ raised' = [raised EXCEPT ![s] = SaveRaises(fw)]
        /\ UNCHANGED <<histFile, started, search_history, batch_queries, acked>>

\* a run of the script, within the bounds of the exploration
Step(handler) == runs < MaxRuns /\ handler /\ Tally

Handler(s) ==
    \/ Step(SessionStart(s))
    \/ Step(SessionEnd(s))
    \/ Step(QuickSearch(s))
    \/ Step(QuickSearchAddToFavorites(s))
    \/ Step(QuickSearchRejected(s))
    \/ Step(AddToQueue(s))
    \/ Step(ClearQueue(s))
    \/ Step(ExecuteAll(s))
    \/ Step(ShuffleQueue(s))
    \/ Step(ClearHistory(s))
    \/ Step(RemoveFavorite(s))
    \/ Step(ClearAllFavorites(s))

\* one session using the two files
Next == Handler("s1")

Spec == Init /\ [][Next]_vars

(***************************************************************************)
(* Two sessions on the same two files: each starts, searches and ends.     *)
(***************************************************************************)
NextShared ==
    \E s \in Sessions :
        \/ Step(SessionStart(s))
        \/ Step(SessionEnd(s))
        \/ Step(QuickSearch(s))
        \/ Step(ClearHistory(s))

SpecShared == Init /\ [][NextShared]_vars

(***************************************************************************)
(* The persistence functions called on their own: a list is saved to and   *)
(* loaded from each file.  call.args is the list; call.hfresh (ffresh)     *)
(* says that the history (favorites) file is what the last save of the     *)
(* list wrote.                                                             *)
(***************************************************************************)
MaxShift == 2

StoreList(n, k) == [i \in 1..n |-> StorePool[((i + k) % Len(StorePool)) + 1]]

\* lengths around the retention cap of the history
StoreLens == {0, 1, HistoryLimit - 1, HistoryLimit, HistoryLimit + 1}

StoreLists == {StoreList(n, k) : n \in StoreLens, k \in 0..MaxShift}

InitStore ==
    /\ \E files \in InitFiles : histFile = files[1] /\ favFile = files[2]
    /\ started = [s \in Sessions |-> "no"]
    /\ search_history = [s \in Sessions |-> <<>>]
    /\ favorites = [s \in Sessions |-> <<>>]
    /\ batch_queries = [s \in Sessions |-> <<>>]
    /\ raised = [s \in Sessions |-> FALSE]
    /\ acked = [s \in Sessions |-> {}]
    /\ last = Ran("Init", "s1", FALSE, "none", "none", "none")
    /\ runs = 0
    /\ faults = 0
    /\ \E x \in StoreLists :
          call = [fn |-> "none", args |-> x, result |-> <<>>, raises |-> FALSE,
                  hfresh |-> FALSE, ffresh |-> FALSE]

\* whether the file still is what a save of the list wrote, after a write
Fresh(was, outcome) ==
    CASE outcome = "ok"          -> TRUE
      [] outcome = "open_fails"  -> was
      [] outcome = "write_fails" -> FALSE

StoreUnchanged ==
    UNCHANGED <<started, search_history, favorites, batch_queries, raised, acked, last, runs>>

SaveHistoryCall ==
    \E w \in Outcomes(0) :
        /\ histFile' = save_search_history(histFile, call.args, w)
        /\ call' = [call EXCEPT !.fn = "save_search_history", !.result = <<>>,
                                !.raises = SaveRaises(w), !.hfresh = Fresh(@, w)]
        /\ faults' = faults + (IF w = "ok" THEN 0 ELSE 1)
        /\ UNCHANGED favFile
        /\ StoreUnchanged

LoadHistoryCall ==
    /\ call' = [call EXCEPT !.fn = "load_search_history",
                            !.result = load_search_history(histFile).value,
                            !.raises = load_search_history(histFile).raises]
    /\ UNCHANGED <<histFile, favFile, faults>>
    /\ StoreUnchanged

SaveFavoritesCall ==
    \E w \in Outcomes(0) :
        /\ favFile' = save_favorites(favFile, call.args, w)
        /\ call' = [call EXCEPT !.fn = "save_favorites", !.result = <<>>,
                                !.raises = SaveRaises(w), !.ffresh = Fresh(@, w)]
        /\ faults' = faults + (IF w = "ok" THEN 0 ELSE 1)
        /\ UNCHANGED histFile
        /\ StoreUnchanged

LoadFavoritesCall ==
    /\ call' = [call EXCEPT !.fn = "load_favorites",
                            !.result = load_favorites(favFile).value,
                            !.raises = load_favorites(favFile).raises]
    /\ UNCHANGED <<histFile, favFile, faults>>
    /\ StoreUnchanged

NextStore ==
    \/ SaveHistoryCall
    \/ LoadHistoryCall
    \/ SaveFavoritesCall
    \/ LoadFavoritesCall

SpecStore == InitStore /\ [][NextStore]_vars

(***************************************************************************)
(* build_search_url called on its own.  call.args is                       *)
(* <<operator, search_term, additional_params>>.                           *)
(***************************************************************************)
MaxTermLen == 3

TermAlphabet == {"a", " ", "\""}

\* the strings over the alphabet of at most n characters
RECURSIVE TermsUpTo(_)
TermsUpTo(n) ==
    IF n = 0 THEN {""}
    ELSE TermsUpTo(n - 1) \cup {t \o c : t \in TermsUpTo(n - 1), c \in TermAlphabet}

UrlTerms ==
    TermsUpTo(MaxTermLen)
    \cup {"example.com", "data science", "AI", "a \t b  c", "x around(3) y",
          "around(X): a", "a&b#c+d"}

\* tokens of the catalog, and two that are not in it
UrlTokens ==
    {"site:", "related:", "cache:", "link:", "info:", "intitle:", "filetype:",
     "before:", "after:", "daterange:", "around(X):", "AROUND(X):",
     "OR", "-", "+", "~", "*", "\"\"", "..", "foo:", "foo"}

UrlParams == {NoParams, EmptyParams, DateParams("2021-06-01"), DateParams("1999-12-31")}

InitUrl ==
    /\ histFile = MissingFile
    /\ favFile = MissingFile
    /\ started = [s \in Sessions |-> "no"]
    /\ search_history = [s \in Sessions |-> <<>>]
    /\ favorites = [s \in Sessions |-> <<>>]
    /\ batch_queries = [s \in Sessions |-> <<>>]
    /\ raised = [s \in Sessions |-> FALSE]
    /\ acked = [s \in Sessions |-> {}]
    /\ last = Ran("Init", "s1", FALSE, "none", "none", "none")
    /\ runs = 0
    /\ faults = 0
    /\ \E op \in UrlTokens, term \in UrlTerms, params \in UrlParams :
          call = [fn |-> "none", args |-> <<op, term, params>>, result |-> ""]

BuildSearchUrlCall ==
    /\ call.fn = "none"
    /\ call' = [call EXCEPT !.fn = "build_search_url",
                            !.result = build_search_url(call.args[1], call.args[2],
                                                        call.args[3])]
    /\ UNCHANGED <<histFile, favFile, started, search_history, favorites, batch_queries,
                   raised, acked, last, runs, faults>>

NextUrl == BuildSearchUrlCall

SpecUrl == InitUrl /\ [][NextUrl]_vars

(***************************************************************************)
(* validate_batch_input called on its own.  call.args is batch_input.      *)
(***************************************************************************)
MaxBatchLen == 3

BatchAlphabet == {"a", " ", "\n", "<"}

\* the strings over the alphabet of at most n characters
RECURSIVE BatchTextsUpTo(_)
BatchTextsUpTo(n) ==
    IF n = 0 THEN {""}
    ELSE BatchTextsUpTo(n - 1) \cup {t \o c : t \in BatchTextsUpTo(n - 1), c \in BatchAlphabet}

\* n lines, each of them line and a line feed
RECURSIVE RepeatLine(_, _)
RepeatLine(line, n) == IF n = 0 THEN "" ELSE line \o "\n" \o RepeatLine(line, n - 1)

\* inputs around the limit on the number of lines
LongTexts ==
    {RepeatLine(line, n) : line \in {"a", "<", "a\n"},
                           n \in (MaxBatchQueries - 1)..(MaxBatchQueries + 2)}
    \cup {RepeatLine("<", MaxBatchQueries - 1) \o "a",
          RepeatLine("a", MaxBatchQueries) \o " \n\t\n",
          RepeatLine("a", MaxBatchQueries) \o "<"}

BatchTexts ==
    BatchTextsUpTo(MaxBatchLen) \cup LongTexts
    \cup {"a < b", " a  b \n<\nc", "a<b>c&d\"e'f", "\ta \t b\t\n \t \n'", "digital marketing\nSEO tools"}

InitBatch ==
    /\ histFile = MissingFile
    /\ favFile = MissingFile
    /\ started = [s \in Sessions |-> "no"]
    /\ search_history = [s \in Sessions |-> <<>>]
    /\ favorites = [s \in Sessions |-> <<>>]
    /\ batch_queries = [s \in Sessions |-> <<>>]
    /\ raised = [s \in Sessions |-> FALSE]
    /\ acked = [s \in Sessions |-> {}]
    /\ last = Ran("Init", "s1", FALSE, "none", "none", "none")
    /\ runs = 0
    /\ faults = 0
    /\ \E text \in BatchTexts :
          call = [fn |-> "none", args |-> text, result |-> BatchResult(FALSE, <<>>, "")]

ValidateBatchCall ==
    /\ call.fn = "none"
    /\ call' = [call EXCEPT !.fn = "validate_batch_input",
                            !.result = validate_batch_input(call.args)]
    /\ UNCHANGED <<histFile, favFile, started, search_history, favorites, batch_queries,
                   raised, acked, last, runs, faults>>

NextBatch == ValidateBatchCall

SpecBatch == InitBatch /\ [][NextBatch]_vars

(***************************************************************************)
(* get_operator_info called on its own.  call.args is <<label, token>>:    *)
(* a category of get_operator_categories and the token that is looked up;  *)
(* call.catalog is the dict SEARCH_OPERATORS as the call leaves it.        *)
(***************************************************************************)
\* the tokens of the catalog and of the categories, and some of neither
LookupTokens ==
    DOMAIN SEARCH_OPERATORS
    \cup UNION {CategoryTokens(label) : label \in CategoryLabels}
    \cup {"foo:", "foo", "", "SITE:", "site", "around(x):"}

InitCatalog ==
    /\ histFile = MissingFile
    /\ favFile = MissingFile
    /\ started = [s \in Sessions |-> "no"]
    /\ search_history = [s \in Sessions |-> <<>>]
    /\ favorites = [s \in Sessions |-> <<>>]
    /\ batch_queries = [s \in Sessions |-> <<>>]
    /\ raised = [s \in Sessions |-> FALSE]
    /\ acked = [s \in Sessions |-> {}]
    /\ last = Ran("Init", "s1", FALSE, "none", "none", "none")
    /\ runs = 0
    /\ faults = 0
    /\ \E label \in CategoryLabels, token \in LookupTokens :
          call = [fn |-> "none", args |-> <<label, token>>,
                  result |-> OperatorSpec("", "", "", <<>>),
                  catalog |-> SEARCH_OPERATORS]

GetOperatorInfoCall ==
    /\ call.fn = "none"
    /\ call' = [call EXCEPT !.fn = "get_operator_info",
                            !.result = get_operator_info(call.args[2]),
                            !.catalog = CatalogAfterLookup(@, call.args[2])]
    /\ UNCHANGED <<histFile, favFile, started, search_history, favorites, batch_queries,
                   raised, acked, last, runs, faults>>

NextCatalog == GetOperatorInfoCall

SpecCatalog == InitCatalog /\ [][NextCatalog]_vars

(***************************************************************************)
(* validate_url called on its own.  call.args is url.                      *)
(***************************************************************************)
MaxUrlLen == 3

\* the strings over an alphabet of at most n characters
RECURSIVE StringsUpTo(_, _)
StringsUpTo(alphabet, n) ==
    IF n = 0 THEN {""}
    ELSE StringsUpTo(alphabet, n - 1)
         \cup {t \o c : t \in StringsUpTo(alphabet, n - 1), c \in alphabet}

\* n times the string s
RECURSIVE Repeat(_, _)
Repeat(s, n) ==
    IF n = 0 THEN ""
    ELSE IF n % 2 = 0 THEN Repeat(s \o s, n \div 2)
    ELSE s \o Repeat(s, n - 1)

\* what is given to validate_url: short strings, the examples of the
\* documentation, and labels and domains at the two limits on their length
UrlInputs ==
    StringsUpTo({"a", "-", ".", "/", " ", "\n"}, MaxUrlLen)
    \cup {"example.com", "http://example.com/path", "https://a.b/", "not a domain!!",
          "http://", "HTTP://a.com", " example.com ", "example.com\n/x", "a_b.com",
          "sub.example-1.com"}
    \cup {Repeat("a", n) : n \in {62, 63, 64}}
    \cup {Repeat(Repeat("a", 63) \o ".", 3) \o Repeat("a", n) : n \in {60, 61, 62}}
    \cup {"https://" \o Repeat(Repeat("a", 63) \o ".", 3) \o Repeat("a", n) \o "/path" :
              n \in {61, 62}}

InitValidate ==
    /\ histFile = MissingFile
    /\ favFile = MissingFile
    /\ started = [s \in Sessions |-> "no"]
    /\ search_history = [s \in Sessions |-> <<>>]
    /\ favorites = [s \in Sessions |-> <<>>]
    /\ batch_queries = [s \in Sessions |-> <<>>]
    /\ raised = [s \in Sessions |-> FALSE]
    /\ acked = [s \in Sessions |-> {}]
    /\ last = Ran("Init", "s1", FALSE, "none", "none", "none")
    /\ runs = 0
    /\ faults = 0
    /\ \E url \in UrlInputs : call = [fn |-> "none", args |-> url, result |-> FALSE]

ValidateUrlCall ==
    /\ call.fn = "none"
    /\ call' = [call EXCEPT !.fn = "validate_url", !.result = validate_url(call.args)]
    /\ UNCHANGED <<histFile, favFile, started, search_history, favorites, batch_queries,
                   raised, acked, last, runs, faults>>

NextValidate == ValidateUrlCall

SpecValidate == InitValidate /\ [][NextValidate]_vars

(***************************************************************************)
(* One session whose history file is at the retention cap, every write     *)
(* succeeding: the session starts, searches, runs the batch queue, clears  *)
(* the history and ends.                                                   *)
(***************************************************************************)
\* history files a session has left that hold one entry less than the cap, and the cap
CapFiles == {JsonFile(StoreList(n, 0)) : n \in {HistoryLimit - 1, HistoryLimit}}

InitCap ==
    /\ histFile \in CapFiles
    /\ favFile = MissingFile
    /\ started = [s \in Sessions |-> "no"]
    /\ search_history = [s \in Sessions |-> <<>>]
    /\ favorites = [s \in Sessions |-> <<>>]
    /\ batch_queries = [s \in Sessions |-> <<>>]
    /\ raised = [s \in Sessions |-> FALSE]
    /\ acked = [s \in Sessions |-> {}]
    /\ last = Ran("Init", "s1", FALSE, "none", "none", "none")
    /\ runs = 0
    /\ faults = MaxFaults
    /\ call = NoCall

NextCap ==
    \/ Step(SessionStart("s1"))
    \/ Step(SessionEnd("s1"))
    \/ Step(QuickSearch("s1"))
    \/ Step(AddToQueue("s1"))
    \/ Step(ExecuteAll("s1"))
    \/ Step(ClearHistory("s1"))

SpecCap == InitCap /\ [][NextCap]_vars

(***************************************************************************)
(* Properties                                                              *)
(***************************************************************************)
IsPrefix(p, q) == Len(p) <= Len(q) /\ SubSeq(q, 1, Len(p)) = p

\* the last n elements of a list, all of it when it has fewer
LastN(list, n) ==
    IF Len(list) <= n THEN list ELSE [i \in 1..n |-> list[Len(list) - n + i]]

Failed(outcome) == outcome \in {"open_fails", "write_fails"}

\* the URL for a query
UrlFor(query) == "https://www.google.com/search?q=" \o quote_plus(query) \o "&num=100"

Built == call.fn = "build_search_url"

\* C1: once a list X has been saved as the history, loading the history
\* returns X when X has at most 1000 entries and the last 1000 entries of X,
\* in their order, when it has more.
C1_HistoryRoundTrip ==
    (call.fn = "load_search_history" /\ call.hfresh) =>
        /\ ~call.raises
        /\ call.result = LastN(call.args, 1000)

C1_Witness ==
    /\ call.fn = "load_search_history"
    /\ call.hfresh
    /\ Len(call.args) = 1001
    /\ Len(call.result) = 1000
    /\ call.result[1] = call.args[2]
    /\ call.result[1] # call.args[1]

\* C2: a save of the history never reads the file: when a session's save
\* succeeds, the file holds that session's own list (its last 1000 entries),
\* whatever other sessions had written.  Its witness is the lost update.
C2_SaveOverwrites ==
    [][last'.hw = "ok" =>
          /\ histFile'.kind = "json"
          /\ json_load(histFile'.items) = LastN(search_history'[last'.s], 1000)]_vars

\* an entry that a session appended and saved is no longer in the file after
\* another session has appended, and saved, an entry of its own
C2_LostUpdate ==
    /\ last.op = "QuickSearch"
    /\ last.hw = "ok"
    /\ histFile.kind = "json"
    /\ \E s \in Sessions \ {last.s} :
          /\ started[s] = "yes"
          /\ \E e \in acked[s] :
                /\ e \in Range(search_history[s])
                /\ e \notin Range(json_load(histFile.items))

\* C3: while a session lasts, its history changes only by entries appended
\* at its end or by being emptied by Clear History; no entry is edited or
\* moved.  The list of the session is never cut to the cap: the cut is made
\* on what save_search_history writes (C1), which leaves this list whole.
C3_HistoryAppendOnly ==
    [][\A s \in Sessions :
          (started[s] # "no" /\ started'[s] # "no") =>
              \/ IsPrefix(search_history[s], search_history'[s])
              \/ /\ last'.op = "ClearHistory"
                 /\ last'.s = s
                 /\ search_history'[s] = <<>>]_vars

C3_Witness ==
    /\ last.op \in {"QuickSearch", "ExecuteAll"}
    /\ Len(search_history[last.s]) >= 2
    /\ search_history[last.s][1] = OldEntry
    /\ search_history[last.s][2] # OldEntry

\* C4: removing a favorite and clearing the favorites leave the history, in
\* memory and on disk, as it was; clearing the history leaves the favorites,
\* in memory and on disk, as they were.
C4_IndependentLists ==
    [][/\ last'.op \in {"RemoveFavorite", "ClearAllFavorites"} =>
              (search_history' = search_history /\ histFile' = histFile)
       /\ last'.op = "ClearHistory" =>
              (favorites' = favorites /\ favFile' = favFile)]_vars

\* a favorite has been removed while an equal entry is in the history
C4_Witness ==
    /\ last.op = "RemoveFavorite"
    /\ last.fw = "ok"
    /\ OldEntry \notin Range(favorites[last.s])
    /\ OldEntry \in Range(search_history[last.s])
    /\ histFile.kind = "json"
    /\ OldEntry \in Range(json_load(histFile.items))

NoDuplicates(list) == \A i, j \in 1..Len(list) : list[i] = list[j] => i = j

\* C5: Add to Favorites appends the entry of the search of that run to the
\* favorites and saves them when no equal entry is among them, and leaves
\* the favorites and their file as they were when one is; the favorites
\* never hold two equal entries.
C5_AddToFavorites ==
    /\ [][last'.op = "AddToFavorites" =>
             LET s == last'.s
                 entry == search_history'[s][Len(search_history'[s])]
             IN IF entry \in Range(favorites[s])
                THEN favorites'[s] = favorites[s] /\ favFile' = favFile
                ELSE /\ favorites'[s] = Append(favorites[s], entry)
                     /\ last'.fw = "ok" =>
                            (favFile'.kind = "json"
                             /\ json_load(favFile'.items) = favorites'[s])]_vars
    /\ [](\A s \in Sessions : NoDuplicates(favorites[s]))

\* Add to Favorites has found the entry among the favorites
C5_Witness ==
    /\ last.op = "AddToFavorites"
    /\ last.fav = "duplicate"
    /\ search_history[last.s][Len(search_history[last.s])] \in Range(favorites[last.s])
    /\ Len(favorites[last.s]) = 2

\* C6: a load returns the empty list for a missing file and for a file whose
\* content is corrupt or unreadable, never raising; for a saved list it
\* returns that list.
C6_LoadNeverRaises ==
    /\ call.fn = "load_search_history" =>
          /\ ~call.raises
          /\ histFile.kind # "json" => call.result = <<>>
          /\ call.hfresh => call.result = LastN(call.args, 1000)
    /\ call.fn = "load_favorites" =>
          /\ ~call.raises
          /\ favFile.kind # "json" => call.result = <<>>
          /\ call.ffresh => call.result = call.args

\* C7: when the write of a save fails, the run ends without an exception,
\* the lists in memory are what the handler made them, and the session goes on.
C7_WriteFailureSwallowed ==
    [][(Failed(last'.hw) \/ Failed(last'.fw)) =>
          LET s == last'.s
              h == search_history[s]
              f == favorites[s]
          IN /\ ~raised'[s]
             /\ started'[s] = "yes"
             /\ last'.op \in {"QuickSearch", "AddToFavorites"} =>
                    (Len(search_history'[s]) = Len(h) + 1 /\ IsPrefix(h, search_history'[s]))
             /\ last'.op = "ExecuteAll" =>
                    (Len(search_history'[s]) = Len(h) + Len(batch_queries[s])
                     /\ IsPrefix(h, search_history'[s]))
             /\ last'.op = "ClearHistory" => search_history'[s] = <<>>
             /\ last'.op \in {"RemoveFavorite", "ClearAllFavorites"} =>
                    search_history'[s] = h
             /\ last'.op = "AddToFavorites" =>
                    favorites'[s] \in {f, Append(f, search_history'[s][Len(h) + 1])}
             /\ last'.op = "RemoveFavorite" => Len(favorites'[s]) = Len(f) - 1
             /\ last'.op = "ClearAllFavorites" => favorites'[s] = <<>>
             /\ last'.op \in {"QuickSearch", "ExecuteAll", "ClearHistory"} =>
                    favorites'[s] = f]_vars

\* the write of the history failed after the file was truncated
C7_Witness ==
    /\ last.op = "QuickSearch"
    /\ last.hw = "write_fails"
    /\ histFile.kind = "partial"
    /\ ~raised[last.s]
    /\ Len(search_history[last.s]) >= 1

\* C8: once a list X of any length has been saved as the favorites, loading
\* the favorites returns X.
C8_FavoritesRoundTrip ==
    (call.fn = "load_favorites" /\ call.ffresh) =>
        /\ ~call.raises
        /\ call.result = call.args

C8_Witness ==
    /\ call.fn = "load_favorites"
    /\ call.ffresh
    /\ Len(call.args) = 1001
    /\ call.result = call.args

UrlFlavored == {"site:", "related:", "cache:", "link:", "info:"}

\* C9, as the spec has it: for site:, related:, cache:, link: and info: the
\* query is the operator followed by the term as given, without quotes.
C9_Original ==
    (Built /\ call.args[1] \in UrlFlavored) =>
        call.result = UrlFor(call.args[1] \o call.args[2])

\* C9, amended: for site:, related:, cache:, link: and info: the query is the
\* operator followed by the term without its leading and trailing whitespace,
\* never in quotes, with or without a space inside the term.
C9_UrlOperators ==
    (Built /\ call.args[1] \in UrlFlavored) =>
        call.result = UrlFor(call.args[1] \o Strip(call.args[2]))

C9_Witness ==
    /\ Built
    /\ call.args[1] = "site:"
    /\ call.args[2] = "a a"
    /\ call.result = "https://www.google.com/search?q=site%3Aa+a&num=100"

\* the operators of C10: a trailing colon, and none of the date, daterange,
\* around and URL rules
ColonKeyword(op) ==
    /\ EndsWith(op, ":")
    /\ op \notin UrlFlavored \cup {"before:", "after:", "daterange:"}
    /\ Upper(op) # "AROUND(X):"

Wrapped(term) == StartsWith(term, "\"") /\ EndsWith(term, "\"")

\* C10, as the spec has it: the term as given is put in quotes exactly when
\* it contains a space and is not already in quotes.
C10_Original ==
    (Built /\ ColonKeyword(call.args[1])) =>
        call.result =
            UrlFor(IF Contains(call.args[2], " ") /\ ~Wrapped(call.args[2])
                   THEN call.args[1] \o "\"" \o call.args[2] \o "\""
                   ELSE call.args[1] \o call.args[2])

\* C10, amended: with t the term without its leading and trailing
\* whitespace, the query is the operator and t in quotes exactly when t
\* contains a space and is not already in quotes, and the operator and t
\* otherwise.
C10_KeywordOperators ==
    (Built /\ ColonKeyword(call.args[1])) =>
        LET t == Strip(call.args[2])
        IN call.result =
               UrlFor(IF Contains(t, " ") /\ ~Wrapped(t)
                      THEN call.args[1] \o "\"" \o t \o "\""
                      ELSE call.args[1] \o t)

C10_Witness ==
    /\ Built
    /\ call.args[1] = "intitle:"
    /\ call.args[2] = "a a"
    /\ call.result = "https://www.google.com/search?q=intitle%3A%22a+a%22&num=100"

\* the date of the dated rules: the one of additional_params, or the default
DateOrDefault(params) == IF params.kind = "date" THEN params.date ELSE "2020-01-01"

\* C11, as the spec has it: for before: and after: the query is the operator,
\* the date, a space and the term as given.
C11_Original ==
    (Built /\ call.args[1] \in {"before:", "after:"}) =>
        call.result = UrlFor(call.args[1] \o DateOrDefault(call.args[3]) \o " " \o call.args[2])

\* C11, amended: for before: and after: the query is the operator, the date,
\* a space and the term without its leading and trailing whitespace, never
\* in quotes; the date is the one of additional_params when it holds one and
\* 2020-01-01 when it is None or holds none.
C11_DatedOperators ==
    (Built /\ call.args[1] \in {"before:", "after:"}) =>
        call.result =
            UrlFor(call.args[1] \o DateOrDefault(call.args[3]) \o " " \o Strip(call.args[2]))

C11_Witness ==
    /\ Built
    /\ call.args = <<"before:", "AI", DateParams("2021-06-01")>>
    /\ call.result = "https://www.google.com/search?q=before%3A2021-06-01+AI&num=100"

\* the window of the daterange rule
WindowOf(params) ==
    IF params.kind = "date"
    THEN "after:" \o SubSeq(params.date, 1, 4) \o "-01-01 before:"
         \o SubSeq(params.date, 1, 4) \o "-12-31 "
    ELSE "after:2020-01-01 before:2021-12-31 "

AroundRule(term) ==
    IF Contains(Upper(term), "AROUND(")
    THEN term
    ELSE IF Len(Split(term)) >= 2
         THEN Head(Split(term)) \o " AROUND(5) " \o Join(Tail(Split(term)), " ")
         ELSE term \o " AROUND(5) related"

\* C13, as the spec has it: for around(X): the query is made from the term as
\* given, first word, AROUND(5) and the other words, or the term and
\* 'AROUND(5) related', or the term alone when it holds 'AROUND(' in any
\* case; and the token around(X): is in no query.
C13_Original ==
    (Built /\ call.args[1] = "around(X):") =>
        /\ call.result = UrlFor(AroundRule(call.args[2]))
        /\ ~Contains(call.result, quote_plus("around(X):"))

\* C13, amended: the same rule on the term without its leading and trailing
\* whitespace; the token around(X): is never added to the query, which holds
\* it only where the term does.
C13_Around ==
    (Built /\ call.args[1] = "around(X):") =>
        /\ call.result = UrlFor(AroundRule(Strip(call.args[2])))
        /\ Contains(call.result, quote_plus("around(X):")) =>
               Contains(call.args[2], "around(X):")

C13_Witness ==
    /\ Built
    /\ call.args = <<"around(X):", "a \t b  c", NoParams>>
    /\ call.result = "https://www.google.com/search?q=a+AROUND%285%29+b+c&num=100"

\* C14: the token AROUND(X): of the catalog gives, for every term, the URL
\* that around(X): gives.
C14_CaseInsensitive ==
    (Built /\ call.args[1] = "AROUND(X):") =>
        call.result = UrlFor(AroundRule(Strip(call.args[2])))

\* C15, as the spec has it: for an operator without a trailing colon the
\* query is the operator, a space and the term as given.
C15_Original ==
    (Built /\ ~EndsWith(call.args[1], ":")) =>
        call.result = UrlFor(call.args[1] \o " " \o call.args[2])

\* C15, amended: with t the term without its leading and trailing
\* whitespace, an operator without a trailing colon gives the operator, a
\* space and t, in the catalog or not; a token that is not in the catalog and
\* ends with a colon gives what the keyword operators give.
C15_Fallback ==
    LET t == Strip(call.args[2])
    IN /\ (Built /\ ~EndsWith(call.args[1], ":")) =>
              call.result = UrlFor(call.args[1] \o " " \o t)
       /\ (Built /\ EndsWith(call.args[1], ":") /\ call.args[1] \notin CatalogTokens) =>
              call.result =
                  UrlFor(IF Contains(t, " ") /\ ~Wrapped(t)
                         THEN call.args[1] \o "\"" \o t \o "\""
                         ELSE call.args[1] \o t)

\* a token that is not in the catalog is formatted by the fallback rule
C15_Witness ==
    /\ Built
    /\ call.args = <<"foo", "data science", NoParams>>
    /\ "foo" \notin CatalogTokens
    /\ call.result = "https://www.google.com/search?q=foo+data+science&num=100"

\* the characters the model's strings hold that quote_plus writes as %XX
CodedChars == CharsOf("\":()/+&#*=%'<>\t\n")

\* form decoding: + is a space, %XX the character of that code
RECURSIVE FormDecode(_)
FormDecode(s) ==
    IF s = "" THEN ""
    ELSE IF Char(s, 1) = "+" THEN " " \o FormDecode(SubSeq(s, 2, Len(s)))
    ELSE IF Char(s, 1) = "%"
         THEN (CHOOSE c \in CodedChars : PercentCode(c) = SubSeq(s, 1, 3))
              \o FormDecode(SubSeq(s, 4, Len(s)))
    ELSE Char(s, 1) \o FormDecode(SubSeq(s, 2, Len(s)))

\* how many times the character c is in s
Count(s, c) == Cardinality({i \in 1..Len(s) : Char(s, i) = c})

\* C16: the URL is 'https://www.google.com/search?q=' + E + '&num=100', E
\* the form encoding of the query of the formatting rules: E has a '+' for
\* every space of the query and no other, holds no space, '&', '#' or '"',
\* and decodes to the query.
C16_UrlShape ==
    Built =>
        LET query == BuildQuery(call.args[1], call.args[2], call.args[3])
            E == SubSeq(call.result, 33, Len(call.result) - 8)
        IN /\ Len(call.result) >= 40
           /\ SubSeq(call.result, 1, 32) = "https://www.google.com/search?q="
           /\ SubSeq(call.result, Len(call.result) - 7, Len(call.result)) = "&num=100"
           /\ \A c \in {" ", "&", "#", "\""} : Count(E, c) = 0
           /\ Count(E, "+") = Count(query, " ")
           /\ FormDecode(E) = query

\* a query with a space, '&', '#' and '+'
C16_Witness ==
    /\ Built
    /\ call.args = <<"OR", "a&b#c+d", NoParams>>
    /\ call.result = "https://www.google.com/search?q=OR+a%26b%23c%2Bd&num=100"

Validated == call.fn = "validate_batch_input"

TooManyError == "Maximum 50 queries allowed in batch mode"

\* the lines of an input that are not empty once trimmed
TrimmedLines(text) ==
    LET raw == SplitOn(text, "\n")
    IN SelectSeq([i \in 1..Len(raw) |-> Strip(raw[i])], LAMBDA line : line # "")

\* the lines among them that cleaning does not empty, cleaned
Survivors(text) ==
    LET lines == TrimmedLines(text)
    IN SelectSeq([i \in 1..Len(lines) |-> clean_search_term(lines[i])],
                 LAMBDA line : line # "")

\* C17: an input with 51 or more non-empty trimmed lines, counted before
\* cleaning, is refused with no queries and the 'too many' error; an input
\* with exactly 50 is not refused for its number of lines and is accepted
\* with every line that survives cleaning.
C17_BatchCap ==
    Validated =>
        LET n == Len(TrimmedLines(call.args))
        IN /\ n >= 51 =>
                  call.result = [ok |-> FALSE, queries |-> <<>>, error |-> TooManyError]
           /\ n = 50 =>
                  /\ call.result.error # TooManyError
                  /\ Len(Survivors(call.args)) > 0 =>
                         (call.result.ok /\ Len(call.result.queries) = Len(Survivors(call.args)))

\* fifty lines are accepted
C17_Witness ==
    /\ Validated
    /\ Len(TrimmedLines(call.args)) = 50
    /\ call.result.ok
    /\ Len(call.result.queries) = 50
    /\ call.result.error = ""

\* a cleaned query: not empty, none of < > & " ', no whitespace at its ends
\* and no two whitespace characters next to each other
IsCleaned(q) ==
    /\ q # ""
    /\ \A i \in 1..Len(q) : Char(q, i) \notin {"<", ">", "&", "\"", "'"}
    /\ ~IsSpace(Char(q, 1))
    /\ ~IsSpace(Char(q, Len(q)))
    /\ \A i \in 1..(Len(q) - 1) : ~(IsSpace(Char(q, i)) /\ IsSpace(Char(q, i + 1)))

\* C18: every query validate_batch_input returns is cleaned: not empty,
\* without the characters < > & " ', without whitespace at its ends, and with
\* every run of whitespace inside it collapsed to one space.
C18_QueriesCleaned ==
    Validated => \A i \in 1..Len(call.result.queries) : IsCleaned(call.result.queries[i])

\* C19: the result is not-ok with no queries and an error message for an
\* input that is empty or only whitespace and for one none of whose lines
\* survives cleaning; for every other input of at most 50 lines it is ok with
\* no error and the cleaned lines that survive, in the order of the input.
C19_BatchResult ==
    Validated =>
        LET lines == TrimmedLines(call.args)
            kept == Survivors(call.args)
        IN /\ (Len(lines) = 0 \/ (Len(lines) <= 50 /\ Len(kept) = 0)) =>
                  (~call.result.ok /\ call.result.queries = <<>> /\ call.result.error # "")
           /\ (Len(lines) <= 50 /\ Len(kept) > 0) =>
                  (call.result.ok /\ call.result.error = "" /\ call.result.queries = kept)

\* the second of three lines does not survive cleaning
C19_Witness ==
    /\ Validated
    /\ call.args = " a  b \n<\nc"
    /\ call.result = [ok |-> TRUE, queries |-> <<"a b", "c">>, error |-> ""]

LookedUp == call.fn = "get_operator_info"

\* C20: every token of every category of get_operator_categories is a key
\* of the catalog, and its lookup returns the spec of the catalog, whose
\* description is not empty and is not 'Unknown operator'.
C20_CategoriesInCatalog ==
    (LookedUp /\ call.args[2] \in CategoryTokens(call.args[1])) =>
        /\ call.args[2] \in DOMAIN SEARCH_OPERATORS
        /\ call.result = SEARCH_OPERATORS[call.args[2]]
        /\ call.result.description # ""
        /\ call.result.description # "Unknown operator"

\* a token of the category 'SEO Advanced' is looked up
C20_Witness ==
    /\ LookedUp
    /\ call.args = <<"SEO Advanced", "AROUND(X):">>
    /\ "AROUND(X):" \in CategoryTokens("SEO Advanced")
    /\ call.result.description = "Find pages where two terms appear within X words of each other"

\* C21: the lookup of a token of the catalog returns the spec of that token;
\* the lookup of any other token returns the spec with the description
\* 'Unknown operator', the type keyword, the placeholder 'search term' and no
\* examples; in both cases the catalog is after the call what it was before.
C21_LookupTotal ==
    LookedUp =>
        /\ call.args[2] \in DOMAIN SEARCH_OPERATORS =>
               call.result = SEARCH_OPERATORS[call.args[2]]
        /\ call.args[2] \notin DOMAIN SEARCH_OPERATORS =>
               call.result = [description |-> "Unknown operator", type |-> "keyword",
                              placeholder |-> "search term", examples |-> <<>>]
        /\ call.catalog = SEARCH_OPERATORS

\* a token the catalog lacks has been looked up
C21_Witness ==
    /\ LookedUp
    /\ call.args[2] = "foo:"
    /\ "foo:" \notin DOMAIN call.catalog
    /\ call.result.description = "Unknown operator"
    /\ call.result.type = "keyword"
    /\ call.result.placeholder = "search term"
    /\ call.result.examples = <<>>

\* a url without a leading 'http://' or 'https://' and without what follows
\* its first '/', that '/' included
DomainPart(url) ==
    LET rest == IF SubSeq(url, 1, Min(7, Len(url))) = "http://"
                THEN SubSeq(url, 8, Len(url))
                ELSE IF SubSeq(url, 1, Min(8, Len(url))) = "https://"
                     THEN SubSeq(url, 9, Len(url))
                     ELSE url
        slashes == {i \in 1..Len(rest) : Char(rest, i) = "/"}
    IN IF slashes = {} THEN rest
       ELSE IF 1 \in slashes THEN ""
       ELSE SubSeq(rest, 1, (CHOOSE i \in slashes : \A j \in slashes : i <= j) - 1)

\* the label of a domain: 1 to 63 letters, digits and hyphens, no hyphen at
\* its start or its end
IsLabel(l) ==
    /\ Len(l) \in 1..63
    /\ \A i \in 1..Len(l) : Char(l, i) \in CharsOf(LowerLetters \o UpperLetters \o Digits \o "-")
    /\ Char(l, 1) # "-"
    /\ Char(l, Len(l)) # "-"

\* labels with a dot between each two of them
IsDomain(d) ==
    LET dots == {0, Len(d) + 1} \cup {i \in 1..Len(d) : Char(d, i) = "."}
    IN \A i \in dots : \A j \in dots :
           (i < j /\ \A k \in dots : ~(i < k /\ k < j)) =>
               (j - i >= 2 /\ IsLabel(SubSeq(d, i + 1, j - 1)))

\* C22: validate_url is false for the empty string; for any other input,
\* taken without the leading and trailing whitespace that validate_url
\* removes first, it is true exactly when what is left without the protocol
\* and without what the first '/' starts is at most 253 characters of labels
\* with dots between them.
C22_ValidDomain ==
    call.fn = "validate_url" =>
        (call.result <=>
            (call.args # "" /\ Len(DomainPart(Strip(call.args))) <= 253
             /\ IsDomain(DomainPart(Strip(call.args)))))

\* the entries a step has put at the end of the history of a session
Appended(s) ==
    SubSeq(search_history'[s], Len(search_history[s]) + 1, Len(search_history'[s]))

\* C23: an entry is appended to the history, by Quick Search or by Execute
\* All, only when its query is not empty and passes the validator of its
\* operator's type; a Quick Search input that fails validation leaves the
\* history and the history file as they were.
C23_ValidatedBeforeRecorded ==
    [][/\ \A s \in Sessions :
             (last'.op \in {"QuickSearch", "AddToFavorites", "ExecuteAll"}
              /\ last'.s = s) =>
                 \A i \in DOMAIN Appended(s) :
                     /\ Appended(s)[i].query # ""
                     /\ InputValid(Appended(s)[i].operator, Appended(s)[i].query)
       /\ last'.op = "QuickSearchRejected" =>
              (search_history' = search_history /\ histFile' = histFile)]_vars

\* C23 on the Quick Search path alone, where the validators are called
C23_QuickSearchValidated ==
    [][/\ \A s \in Sessions :
             (last'.op \in {"QuickSearch", "AddToFavorites"} /\ last'.s = s) =>
                 /\ Len(Appended(s)) = 1
                 /\ Appended(s)[1].query # ""
                 /\ InputValid(Appended(s)[1].operator, Appended(s)[1].query)
       /\ last'.op = "QuickSearchRejected" =>
              (search_history' = search_history /\ histFile' = histFile)]_vars

\* C24: Execute All appends one entry for each item of the queue, in the
\* order of the queue, each with batch = true and the URL build_search_url
\* gives for the item's operator and query without further parameters; the
\* save that follows writes the history with all of them; the queue is as it
\* was.  While a session lasts, only Clear All empties a queue that had items.
C24_ExecuteAll ==
    [][/\ last'.op = "ExecuteAll" =>
              LET s == last'.s
                  queue == batch_queries[s]
                  new == Appended(s)
              IN /\ IsPrefix(search_history[s], search_history'[s])
                 /\ Len(new) = Len(queue)
                 /\ \A i \in DOMAIN queue :
                        /\ DOMAIN new[i] = {"timestamp", "operator", "query", "url", "batch"}
                        /\ new[i].batch = TRUE
                        /\ new[i].operator = queue[i].operator
                        /\ new[i].query = queue[i].query
                        /\ new[i].url = build_search_url(queue[i].operator,
                                                         queue[i].query, NoParams)
                 /\ batch_queries' = batch_queries
                 /\ last'.hw = "ok" =>
                        histFile' = JsonFile(LastN(search_history'[s], 1000))
       /\ \A s \in Sessions :
             (started[s] = "yes" /\ started'[s] = "yes"
              /\ batch_queries[s] # <<>> /\ batch_queries'[s] = <<>>) =>
                 (last'.op = "ClearQueue" /\ last'.s = s)]_vars

\* Execute All pressed twice on a queue of two different items: the history
\* ends with the items of the queue, in their order, twice
C24_Witness ==
    LET s == last.s
        queue == batch_queries[s]
        h == search_history[s]
        n == Len(h)
    IN /\ last.op = "ExecuteAll"
       /\ Len(queue) = 2
       /\ queue[1].query # queue[2].query
       /\ n >= 4
       /\ \A i \in 1..2 :
             /\ h[n - 4 + i].query = queue[i].query
             /\ h[n - 2 + i].query = queue[i].query
             /\ h[n - 4 + i].batch /\ h[n - 2 + i].batch

SavesHistory(op) == op \in {"QuickSearch", "ExecuteAll", "ClearHistory"}

\* C25: in one session whose writes succeed, after every run that saves the
\* history (Quick Search, Execute All, Clear History) the file is the JSON
\* of the last 1000 entries of the list in memory, of the whole list when it
\* has no more, and loading it gives these entries back; the other runs leave
\* the file as it is, and the next session start loads what the file holds.
C25_FileIsSuffix ==
    [][/\ SavesHistory(last'.op) =>
              LET kept == LastN(search_history'[last'.s], 1000)
              IN /\ last'.hw = "ok"
                 /\ histFile' = JsonFile(kept)
                 /\ ~load_search_history(histFile').raises
                 /\ load_search_history(histFile').value = kept
       /\ ~SavesHistory(last'.op) => histFile' = histFile
       /\ (last'.op = "SessionStart" /\ started[last'.s] = "no") =>
              /\ started'[last'.s] = "yes"
              /\ search_history'[last'.s] = json_load(histFile.items)]_vars

\* a session found 1000 entries, appended one by Quick Search and ended; the
\* next start has loaded 1000 entries: the old ones from the second on, and
\* the new one last
C25_Witness ==
    /\ last.op = "SessionStart"
    /\ Len(search_history["s1"]) = 1000
    /\ search_history["s1"][1] = StoreList(1000, 0)[2]
    /\ search_history["s1"][1] # StoreList(1000, 0)[1]
    /\ search_history["s1"][999] = StoreList(1000, 0)[1000]
    /\ search_history["s1"][1000].query = "a b"
    /\ histFile = JsonFile(search_history["s1"])

====
